---- MODULE Spec2Model ----
(***************************************************************************)
(* A model of auto_reword_controller: the planner (plan.py, planner.py),   *)
(* the quality model (models.py), the executor (executor.py) and the       *)
(* pipeline (pipeline.py, report.py).                                      *)
(*                                                                         *)
(* Conventions.  A Python str is a sequence of one-character strings, so   *)
(* that ", ".join(...) is a real concatenation; fixed texts of the source  *)
(* (purposes, headings) are one-element sequences holding an ASCII         *)
(* rendering of the text.  None is the record [none |-> TRUE].  A dict is  *)
(* a function from its keys.  A call that may raise returns                *)
(* [raised |-> TRUE] or [raised |-> FALSE, val |-> v].                     *)
(***************************************************************************)
EXTENDS Integers, Sequences, FiniteSets, TLC

VARIABLES
    call,       \* the operation called and its arguments
    result,     \* [pending |-> TRUE] before the return, else the call's outcome
    pc,         \* DailyReportPipeline.run: "plan", "collect", "report", "done",
                \* "failed"; "planner" in a call of the planner alone
    plan,       \* run: the plan build_plan returned
    idx,        \* execute: the number of tasks whose tool has been called
    records,    \* execute: the records of the current call not yet processed
    collected,  \* execute: dataset.collected, the buckets in insertion order
    data,       \* execute's outcome
    calls,      \* the tool runner's log of the calls it received
    processed,  \* the records execute has processed, with their task's tool
    budget,     \* the records the tool runner may still return
    heap        \* the shared mutable objects, by name: the module's
                \* DEFAULT_TOOL_ARGS, and the lists plan objects refer to

vars == <<call, result, pc, plan, idx, records, collected, data, calls, processed,
          budget, heap>>

(***************************************************************************)
(* Bounds of the model.                                                    *)
(***************************************************************************)
MaxCues == 2      \* longest cue list
MaxRaw == 2       \* longest raw task list of a planner response
MaxRunCues == 1   \* longest cue list of a pipeline run
MaxRecords == 2   \* the records the tool runner returns over one run
MaxBlocks == 3    \* the records behind a dataset handed to the report builders
MaxBuilds == 3    \* the builder calls made on one dataset
MaxEdits == 2     \* the changes a caller makes to the lists of a returned plan

(***************************************************************************)
(* Python values.                                                          *)
(***************************************************************************)
None == [none |-> TRUE]
Str(s) == [str |-> s]
Raise == [raised |-> TRUE]
Ok(v) == [raised |-> FALSE, val |-> v]
EmptyDict == [key \in {} |-> 0]

\* DictMerge with the defaults winning on a collision
DictMerge_BaseWins(base, over) ==
    [key \in (DOMAIN base) \cup (DOMAIN over) |->
        IF key \in DOMAIN base THEN base[key] ELSE over[key]]

\* {**base, **over}: the keys of both, over winning on a collision
DictMerge(base, over) ==
    [key \in (DOMAIN base) \cup (DOMAIN over) |->
        IF key \in DOMAIN over THEN over[key] ELSE base[key]]

\* sep.join(strs)
RECURSIVE Join(_, _)
Join(sep, strs) ==
    IF strs = <<>> THEN <<>>
    ELSE IF Len(strs) = 1 THEN strs[1]
    ELSE strs[1] \o sep \o Join(sep, Tail(strs))

CommaSpace == <<",", " ">>

(***************************************************************************)
(* models.py                                                               *)
(***************************************************************************)
TaskPlan(tool, args, purpose) == [tool |-> tool, args |-> args, purpose |-> purpose]

DailyStockReportPlan(date, tasks, base_tasks, enrichment_reason) ==
    [date |-> date, tasks |-> tasks, base_tasks |-> base_tasks,
     enrichment_reason |-> enrichment_reason]

(***************************************************************************)
(* plan.py                                                                 *)
(***************************************************************************)
BASE_TASKS_Short == <<"get_index_snapshot", "get_macro_snapshot">>

BASE_TASKS == <<"get_index_snapshot", "get_macro_snapshot", "get_dart_disclosures">>

build_base_plan(target_date) ==
    DailyStockReportPlan(
        target_date,
        << TaskPlan("get_index_snapshot", [indices |-> <<"KOSPI", "KOSDAQ">>],
                    Str(<<"index snapshot">>)),
           TaskPlan("get_macro_snapshot", EmptyDict, Str(<<"rates/fx macro">>)),
           TaskPlan("get_dart_disclosures", [importance |-> "high"],
                    Str(<<"major disclosures">>)) >>,
        BASE_TASKS,
        None)

\* the two tasks enrich_plan appends for one cue
EnrichTasksFor(cue) ==
    << TaskPlan("search_kr_stock_news", [query |-> cue, limit |-> 5],
                Str(cue \o <<" related news boost">>)),
       TaskPlan("get_forum_sentiment", [topics |-> <<cue>>],
                Str(cue \o <<" market sentiment">>)) >>

\* EnrichTasks taking a repeated cue once
RECURSIVE EnrichTasks_Unique(_)
EnrichTasks_Unique(cues) ==
    IF cues = <<>> THEN <<>>
    ELSE (IF \E i \in 2..Len(cues) : cues[i] = Head(cues) THEN <<>>
          ELSE EnrichTasksFor(Head(cues)))
            \o EnrichTasks_Unique(Tail(cues))

RECURSIVE EnrichTasks(_)
EnrichTasks(cues) ==
    IF cues = <<>> THEN <<>>
    ELSE EnrichTasksFor(Head(cues)) \o EnrichTasks(Tail(cues))

enrich_plan(base_plan, cues) ==
    DailyStockReportPlan(
        base_plan.date,
        base_plan.tasks \o EnrichTasks(cues),
        base_plan.base_tasks,
        IF cues # <<>> THEN Str(Join(CommaSpace, cues)) ELSE None)

(***************************************************************************)
(* plan.py: the layer of a tool.                                           *)
(***************************************************************************)
\* layer_for_tool sending an unknown tool to the risk layer
layer_for_tool_Risky(tool) ==
    CASE tool \in {"get_index_snapshot", "get_top_sectors"} -> "price"
      [] tool = "get_dart_disclosures" -> "disclosure"
      [] tool = "get_macro_snapshot" -> "macro"
      [] tool = "search_kr_stock_news" -> "news"
      [] tool = "get_forum_sentiment" -> "opinion"
      [] OTHER -> "risk"

\* plan.py:66-78
layer_for_tool(tool) ==
    CASE tool \in {"get_index_snapshot", "get_top_sectors"} -> "price"
      [] tool = "get_dart_disclosures" -> "disclosure"
      [] tool = "get_macro_snapshot" -> "macro"
      [] tool = "search_kr_stock_news" -> "news"
      [] tool = "get_forum_sentiment" -> "opinion"
      [] OTHER -> "news"

(***************************************************************************)
(* Dates: datetime.date as <<year, month, day>>.                           *)
(***************************************************************************)
Digit(n) == CASE n = 0 -> "0" [] n = 1 -> "1" [] n = 2 -> "2" [] n = 3 -> "3"
              [] n = 4 -> "4" [] n = 5 -> "5" [] n = 6 -> "6" [] n = 7 -> "7"
              [] n = 8 -> "8" [] n = 9 -> "9"

TwoDigits(n) == <<Digit(n \div 10), Digit(n % 10)>>

\* date.isoformat(): YYYY-MM-DD
isoformat(d) ==
    <<Digit(d[1] \div 1000), Digit((d[1] \div 100) % 10)>> \o TwoDigits(d[1] % 100)
        \o <<"-">> \o TwoDigits(d[2]) \o <<"-">> \o TwoDigits(d[3])

(***************************************************************************)
(* planner.py: JSON values as json.loads returns them.                     *)
(*   a raw task item:  [k |-> "scalar"]  (a number, a string: no mapping)  *)
(*                     [k |-> "object", tool, args, purpose]               *)
(*   item.get("tool"): [k |-> "none"] (key missing or null),               *)
(*                     [k |-> "str", s], [k |-> "list"] (a non-empty list) *)
(*   "args" of an item: [k |-> "missing"], [k |-> "map", m], [k |-> "null"]*)
(*   "tasks" of a plan: [k |-> "missing"], [k |-> "null"], [k |-> "number"]*)
(*                     [k |-> "emptystr"], [k |-> "list", items]           *)
(***************************************************************************)
ToolNone == [k |-> "none"]
ToolStr(s) == [k |-> "str", s |-> s]
ToolList == [k |-> "list"]
ArgsMissing == [k |-> "missing"]
ArgsMap(m) == [k |-> "map", m |-> m]
ArgsNull == [k |-> "null"]
ScalarItem == [k |-> "scalar"]
RawTask(tool, args, purpose) ==
    [k |-> "object", tool |-> tool, args |-> args, purpose |-> purpose]
TasksMissing == [k |-> "missing"]
TasksNull == [k |-> "null"]
TasksNumber == [k |-> "number"]
TasksEmptyStr == [k |-> "emptystr"]
TasksList(items) == [k |-> "list", items |-> items]
RawPlan(date, tasks, enrichment_reason) ==
    [k |-> "object", date |-> date, tasks |-> tasks,
     enrichment_reason |-> enrichment_reason]
NonObject == [k |-> "nonobject"]     \* JSON null, number, string or array

ALLOWED_TOOLS ==
    {"get_index_snapshot", "get_macro_snapshot", "get_dart_disclosures",
     "get_top_sectors", "search_kr_stock_news", "get_forum_sentiment"}

\* DEFAULT_TOOL_ARGS.get(tool, {})
DEFAULT_TOOL_ARGS(tool) ==
    CASE tool = "get_index_snapshot" -> [indices |-> <<"KOSPI", "KOSDAQ">>]
      [] tool = "get_dart_disclosures" -> [importance |-> "high"]
      [] tool = "search_kr_stock_news" -> [limit |-> 5]
      [] tool = "get_top_sectors" -> [limit |-> 5]
      [] tool = "get_forum_sentiment" -> [topics |-> <<>>]
      [] OTHER -> EmptyDict

\* Rejected without the whitelist test
Rejected_NoWhitelist(tool) ==
    \/ tool.k = "none"
    \/ tool.s = ""

\* planner.py:73, "not tool or tool not in self.allowed_tools", for a tool
\* that is None or a str
Rejected(tool) ==
    \/ tool.k = "none"
    \/ tool.s = ""
    \/ tool.s \notin ALLOWED_TOOLS

\* the loop of compile_tasks over a list of items
RECURSIVE CompileItems(_)
CompileItems(items) ==
    IF items = <<>> THEN Ok(<<>>)
    ELSE LET item == Head(items) IN
        IF item.k # "object" THEN Raise              \* item.get: AttributeError
        ELSE IF item.tool.k = "list" THEN Raise      \* unhashable: TypeError
        ELSE IF Rejected(item.tool) THEN CompileItems(Tail(items))
        ELSE IF item.args.k = "null" THEN Raise      \* ** of a non-mapping
        ELSE LET args == DictMerge(DEFAULT_TOOL_ARGS(item.tool.s),
                                   IF item.args.k = "map" THEN item.args.m
                                   ELSE EmptyDict)
                 rest == CompileItems(Tail(items))
             IN IF rest.raised THEN Raise
                ELSE Ok(<<TaskPlan(item.tool.s, args, item.purpose)>> \o rest.val)

\* PlanCompiler.compile_tasks(raw_tasks)
compile_tasks(raw_tasks) ==
    CASE raw_tasks.k = "list" -> CompileItems(raw_tasks.items)
      [] raw_tasks.k = "emptystr" -> Ok(<<>>)        \* nothing to iterate
      [] OTHER -> Raise                              \* None, a number: TypeError

\* DuplicateMandatory with the test on BASE_TASKS inverted
DuplicateMandatory_Inverted(task, base_tools) ==
    /\ task.tool \in base_tools
    /\ ~ \E i \in DOMAIN BASE_TASKS : BASE_TASKS[i] = task.tool

\* planner.py:85, the tasks merge_with_base leaves out
DuplicateMandatory(task, base_tools) ==
    /\ task.tool \in base_tools
    /\ \E i \in DOMAIN BASE_TASKS : BASE_TASKS[i] = task.tool

\* MergeExtras remembering every tool it has appended, so that no tool repeats
RECURSIVE MergeExtras_DedupAll(_, _)
MergeExtras_DedupAll(extra_tasks, base_tools) ==
    IF extra_tasks = <<>> THEN <<>>
    ELSE IF Head(extra_tasks).tool \in base_tools
         THEN MergeExtras_DedupAll(Tail(extra_tasks), base_tools)
    ELSE <<Head(extra_tasks)>>
            \o MergeExtras_DedupAll(Tail(extra_tasks),
                                    base_tools \cup {Head(extra_tasks).tool})

\* planner.py:84-88, the loop of merge_with_base over the compiled tasks
RECURSIVE MergeExtras(_, _)
MergeExtras(extra_tasks, base_tools) ==
    IF extra_tasks = <<>> THEN <<>>
    ELSE (IF DuplicateMandatory(Head(extra_tasks), base_tools) THEN <<>>
          ELSE <<Head(extra_tasks)>>) \o MergeExtras(Tail(extra_tasks), base_tools)

\* raw_plan.get("tasks", [])
GetTasks(raw_plan) ==
    IF raw_plan.tasks.k = "missing" THEN TasksList(<<>>) ELSE raw_plan.tasks

\* merge_with_base letting a compiled task take the place of the baseline task
\* of the same tool
merge_with_base_Override(target_date, base_plan, raw_plan) ==
    IF raw_plan.k # "object" THEN Raise
    ELSE LET extra_tasks == compile_tasks(GetTasks(raw_plan))
             base_tools == {base_plan.tasks[i].tool : i \in DOMAIN base_plan.tasks}
             Override(task) ==
                 LET same == SelectSeq(extra_tasks.val, LAMBDA t : t.tool = task.tool)
                 IN IF same = <<>> THEN task ELSE same[Len(same)]
         IN IF extra_tasks.raised THEN Raise
            ELSE Ok(DailyStockReportPlan(
                        target_date,
                        [i \in DOMAIN base_plan.tasks |-> Override(base_plan.tasks[i])]
                            \o MergeExtras(extra_tasks.val, base_tools),
                        base_plan.base_tasks,
                        raw_plan.enrichment_reason))

\* PlanCompiler(target_date=...).merge_with_base(base_plan, raw_plan)
merge_with_base(target_date, base_plan, raw_plan) ==
    IF raw_plan.k # "object" THEN Raise              \* raw_plan.get: AttributeError
    ELSE LET extra_tasks == compile_tasks(GetTasks(raw_plan))
             base_tools == {base_plan.tasks[i].tool : i \in DOMAIN base_plan.tasks}
         IN IF extra_tasks.raised THEN Raise
            ELSE Ok(DailyStockReportPlan(
                        target_date,
                        base_plan.tasks \o MergeExtras(extra_tasks.val, base_tools),
                        base_plan.base_tasks,
                        raw_plan.enrichment_reason))

\* CueTasksFor with the forum task's topics left at the default
CueTasksFor_NoTopic(cue) ==
    << RawTask(ToolStr("search_kr_stock_news"), ArgsMap([query |-> cue, limit |-> 5]),
               Str(cue \o <<" news boost">>)),
       RawTask(ToolStr("get_forum_sentiment"), ArgsMissing,
               Str(cue \o <<" community sentiment">>)) >>

\* the two raw tasks _cue_tasks appends for one cue
CueTasksFor(cue) ==
    << RawTask(ToolStr("search_kr_stock_news"), ArgsMap([query |-> cue, limit |-> 5]),
               Str(cue \o <<" news boost">>)),
       RawTask(ToolStr("get_forum_sentiment"), ArgsMap([topics |-> <<cue>>]),
               Str(cue \o <<" community sentiment">>)) >>

RECURSIVE _cue_tasks(_)
_cue_tasks(cues) ==
    IF cues = <<>> THEN <<>>
    ELSE CueTasksFor(Head(cues)) \o _cue_tasks(Tail(cues))

_fallback_plan(target_date, cues) ==
    RawPlan(Str(isoformat(target_date)),
            TasksList(_cue_tasks(cues)),
            IF cues # <<>> THEN Str(Join(CommaSpace, cues)) ELSE None)

\* a planner response: [k |-> "text"] is text json.loads rejects,
\* [k |-> "json", doc |-> v] the serialisation of the JSON value v
json_loads(response) ==
    IF response.k = "json" THEN Ok(response.doc) ELSE Raise

\* planner.py:162, "not raw_plan.get('tasks')"
NoTasks(raw_plan) ==
    \/ raw_plan.tasks.k \in {"missing", "null", "emptystr"}
    \/ raw_plan.tasks.k = "list" /\ raw_plan.tasks.items = <<>>

\* LLMPlanBuilder(client).build(target_date=..., cues=...); client is FALSE for
\* "no planner configured"
build(client, response, target_date, cues) ==
    LET base_plan == build_base_plan(target_date)
        cue_list == cues
        parsed == json_loads(response)
        raw_plan == IF client /\ ~parsed.raised THEN parsed.val
                    ELSE _fallback_plan(target_date, cue_list)
        compiled == merge_with_base(target_date, base_plan, raw_plan)
    IN IF compiled.raised THEN Raise
       ELSE IF cue_list = <<>> /\ NoTasks(raw_plan)
            THEN Ok(enrich_plan(base_plan, <<>>))
       ELSE compiled

(***************************************************************************)
(* The inputs the planner is called with.                                  *)
(***************************************************************************)
SeqsUpTo(S, n) == UNION {[1..m -> S] : m \in 0..n}

Dates == {<<2024, 1, 2>>, <<2025, 12, 31>>}
CueTerms == {<<"a">>, <<"b">>}
CueLists == SeqsUpTo(CueTerms, MaxCues)

RawItems ==
    { ScalarItem,
      RawTask(ToolNone, ArgsMissing, None),
      RawTask(ToolStr(""), ArgsMap([limit |-> 9]), None),
      RawTask(ToolStr("get_volatility_snapshot"), ArgsMissing, None),
      RawTask(ToolStr("get_index_snapshot"), ArgsMap([indices |-> <<"KOSPI">>]), None),
      RawTask(ToolStr("get_top_sectors"), ArgsMissing, None),
      RawTask(ToolStr("search_kr_stock_news"), ArgsMap([query |-> <<"a">>]),
              Str(<<"why">>)),
      RawTask(ToolStr("search_kr_stock_news"),
              ArgsMap([query |-> <<"b">>, limit |-> 9]), None),
      RawTask(ToolStr("search_kr_stock_news"), ArgsNull, None),
      RawTask(ToolStr("get_forum_sentiment"), ArgsMap([topics |-> << <<"a">> >>]), None) }

RawTaskValues ==
    {TasksNull, TasksNumber, TasksEmptyStr}
        \cup {TasksList(items) : items \in SeqsUpTo(RawItems, MaxRaw)}

Reasons == {None, Str(<<"x">>)}

RawPlans ==
    {RawPlan(None, tasks, reason) :
        tasks \in RawTaskValues \cup {TasksMissing}, reason \in Reasons}

Responses ==
    {[k |-> "text"], [k |-> "json", doc |-> NonObject]}
        \cup {[k |-> "json", doc |-> raw_plan] : raw_plan \in RawPlans}

NoResponse == [k |-> "text"]     \* the response field of a call with no client

\* plans handed to enrich_plan: a baseline plan, and one enriched before
BasePlans ==
    {build_base_plan(d) : d \in Dates}
    \cup {enrich_plan(build_base_plan(d), << <<"b">> >>) : d \in Dates}

\* tool names handed to layer_for_tool: the whitelist, and names outside it
ToolNames ==
    ALLOWED_TOOLS \cup {"get_volatility_snapshot", "GET_INDEX_SNAPSHOT", "risk", ""}

PlannerCalls ==
    {[op |-> "build", client |-> TRUE, response |-> r, date |-> d, cues |-> c] :
        r \in Responses, d \in Dates, c \in CueLists}
    \cup {[op |-> "build", client |-> FALSE, response |-> NoResponse, date |-> d,
           cues |-> c] : d \in Dates, c \in CueLists}
    \cup {[op |-> "merge_with_base", date |-> d, raw_plan |-> rp] :
            d \in Dates, rp \in RawPlans}
    \cup {[op |-> "compile_tasks", raw_tasks |-> rt] : rt \in RawTaskValues}
    \cup {[op |-> "enrich_plan", base_plan |-> b, cues |-> c] :
            b \in BasePlans, c \in CueLists}
    \cup {[op |-> "build_base_plan", date |-> d] : d \in Dates}
    \cup {[op |-> "layer_for_tool", tool |-> t] : t \in ToolNames}

Pending == [pending |-> TRUE]

(***************************************************************************)
(* The planner's operations: each call returns, or raises, once.           *)
(***************************************************************************)
\* planner.py:28-34, the module's dict of default arguments
ModuleHeap ==
    [DEFAULT_TOOL_ARGS |->
        [tool \in {"get_index_snapshot", "get_dart_disclosures", "search_kr_stock_news",
                   "get_top_sectors", "get_forum_sentiment"} |-> DEFAULT_TOOL_ARGS(tool)]]

Idle ==
    /\ heap = ModuleHeap
    /\ plan = None
    /\ idx = 0
    /\ records = <<>>
    /\ collected = <<>>
    /\ data = Pending
    /\ calls = <<>>
    /\ processed = <<>>

Init ==
    /\ call \in PlannerCalls
    /\ result = Pending
    /\ pc = "planner"
    /\ budget = 0
    /\ Idle

Build ==
    /\ result = Pending
    /\ call.op = "build"
    /\ result' = build(call.client, call.response, call.date, call.cues)
    /\ UNCHANGED <<heap, call, pc, plan, idx, records, collected, data, calls,
                   processed, budget>>

MergeWithBase ==
    /\ result = Pending
    /\ call.op = "merge_with_base"
    /\ result' = merge_with_base(call.date, build_base_plan(call.date), call.raw_plan)
    /\ UNCHANGED <<heap, call, pc, plan, idx, records, collected, data, calls,
                   processed, budget>>

CompileTasks ==
    /\ result = Pending
    /\ call.op = "compile_tasks"
    /\ result' = compile_tasks(call.raw_tasks)
    /\ UNCHANGED <<heap, call, pc, plan, idx, records, collected, data, calls,
                   processed, budget>>

EnrichPlan ==
    /\ result = Pending
    /\ call.op = "enrich_plan"
    /\ result' = Ok(enrich_plan(call.base_plan, call.cues))
    /\ UNCHANGED <<heap, call, pc, plan, idx, records, collected, data, calls,
                   processed, budget>>

BuildBasePlan ==
    /\ result = Pending
    /\ call.op = "build_base_plan"
    /\ result' = Ok(build_base_plan(call.date))
    /\ UNCHANGED <<heap, call, pc, plan, idx, records, collected, data, calls,
                   processed, budget>>

LayerForTool ==
    /\ result = Pending
    /\ call.op = "layer_for_tool"
    /\ result' = Ok(layer_for_tool(call.tool))
    /\ UNCHANGED <<heap, call, pc, plan, idx, records, collected, data, calls,
                   processed, budget>>

Next ==
    \/ Build
    \/ MergeWithBase
    \/ CompileTasks
    \/ EnrichPlan
    \/ BuildBasePlan
    \/ LayerForTool

Spec == Init /\ [][Next]_vars

(***************************************************************************)
(* models.py: the quality model.  A sub-score is a whole number of         *)
(* thousandths (0.35 is 350), and so is a quality score.                   *)
(***************************************************************************)
SourceMeta(source_id, layer, source_score, recency_score, structure_score, consistency_score) ==
    [source_id |-> source_id, layer |-> layer, source_score |-> source_score,
     recency_score |-> recency_score, structure_score |-> structure_score,
     consistency_score |-> consistency_score]

weights_Penalty ==
    [source_score |-> 35, recency_score |-> 25, structure_score |-> 20,
     consistency_score |-> -20]

\* the weights of quality_score, in hundredths
weights ==
    [source_score |-> 35, recency_score |-> 25, structure_score |-> 20,
     consistency_score |-> 20]

Round3_Truncate(total) == total \div 100

\* round(total, 3) of a total given in units of 0.00001: to the nearest
\* thousandth, a tie going to the even one
Round3(total) ==
    LET q == total \div 100
        r == total % 100
    IN IF r > 50 \/ (r = 50 /\ q % 2 = 1) THEN q + 1 ELSE q

\* SourceMeta.quality_score()
quality_score(meta) ==
    Round3(meta.source_score * weights.source_score
           + meta.recency_score * weights.recency_score
           + meta.structure_score * weights.structure_score
           + meta.consistency_score * weights.consistency_score)

ContentBlock(title, body, meta, tags) ==
    [title |-> title, body |-> body, meta |-> meta, tags |-> tags]

DailyStockReportData(date, blocks) == [date |-> date, collected |-> blocks]

\* add_block putting the block first in its bucket
add_block_Prepend(buckets, task_name, block) ==
    IF \E i \in DOMAIN buckets : buckets[i].key = task_name
    THEN [i \in DOMAIN buckets |->
            IF buckets[i].key = task_name
            THEN [buckets[i] EXCEPT !.blocks = <<block>> \o @]
            ELSE buckets[i]]
    ELSE Append(buckets, [key |-> task_name, blocks |-> <<block>>])

\* DailyStockReportData.add_block: collected.setdefault(task_name, []).append(block)
add_block(buckets, task_name, block) ==
    IF \E i \in DOMAIN buckets : buckets[i].key = task_name
    THEN [i \in DOMAIN buckets |->
            IF buckets[i].key = task_name
            THEN [buckets[i] EXCEPT !.blocks = Append(@, block)]
            ELSE buckets[i]]
    ELSE Append(buckets, [key |-> task_name, blocks |-> <<block>>])

ReportSection(heading, summary, details, caution, layer) ==
    [heading |-> heading, summary |-> summary, details |-> details,
     caution |-> caution, layer |-> layer]

DailyStockReportOutput(date, sections, raw_data) ==
    [date |-> date, sections |-> sections, raw_data |-> raw_data,
     metadata |-> EmptyDict]

(***************************************************************************)
(* executor.py                                                             *)
(***************************************************************************)
\* record.get(key, default)
RecordGet(record, key, default) ==
    IF key \in DOMAIN record THEN record[key] ELSE default

MetaKeys ==
    {"source_id", "source_score", "recency_score", "structure_score",
     "consistency_score"}

\* PlanExecutor._meta_from_record; SourceMeta(layer=layer, **base_meta) raises
\* TypeError unless base_meta has exactly the five other fields
_meta_from_record(record, layer) ==
    LET base_meta ==
            RecordGet(record, "meta",
                [source_id |-> RecordGet(record, "source_id", "unknown"),
                 source_score |-> RecordGet(record, "source_score",
                                            IF layer = "opinion" THEN 300 ELSE 600),
                 recency_score |-> RecordGet(record, "recency_score", 800),
                 structure_score |-> RecordGet(record, "structure_score", 700),
                 consistency_score |-> RecordGet(record, "consistency_score", 600)])
    IN IF DOMAIN base_meta = MetaKeys
       THEN Ok(SourceMeta(base_meta.source_id, layer, base_meta.source_score,
                          base_meta.recency_score, base_meta.structure_score,
                          base_meta.consistency_score))
       ELSE Raise

\* BelowMinimum with the filter switched off
BelowMinimum_Off(meta, minimum_quality) == FALSE

\* BelowMinimum with the comparison taking the threshold itself as too low
BelowMinimum_Inclusive(meta, minimum_quality) ==
    quality_score(meta) <= minimum_quality

\* executor.py:64, the records execute discards
BelowMinimum(meta, minimum_quality) ==
    quality_score(meta) < minimum_quality

\* executor.py:66-71
BlockOf(record, tool, meta) ==
    ContentBlock(RecordGet(record, "title", tool), RecordGet(record, "body", ""),
                 meta, RecordGet(record, "tags", <<>>))

\* TaskAt walking the plan from its end
TaskAt_Reversed(tasks, n) == tasks[Len(tasks) + 1 - n]

\* executor.py:58, the task of the n-th iteration of "for task in plan.tasks"
TaskAt(tasks, n) == tasks[n]

\* ToolFailure handing back what was collected so far
ToolFailure_Salvage(dataset) == Ok(dataset)

\* executor.py:59-60: nothing catches what the tool call raises, so execute
\* raises it and the dataset under construction is lost
ToolFailure(dataset) == Raise

(***************************************************************************)
(* report.py                                                               *)
(***************************************************************************)
SemiSpace == <<";", " ">>

\* ordering without its last row
ordering_Short ==
    << <<"price", <<"index/sector">> >>,
       <<"disclosure", <<"disclosure/corporate events">> >>,
       <<"macro", <<"macro/policy">> >>,
       <<"news", <<"news/interpretation">> >> >>

ordering ==
    << <<"price", <<"index/sector">> >>,
       <<"disclosure", <<"disclosure/corporate events">> >>,
       <<"macro", <<"macro/policy">> >>,
       <<"news", <<"news/interpretation">> >>,
       <<"opinion", <<"market sentiment">> >> >>

OpinionCaution_Missing == None

OpinionCaution == Str(<<"community data, reliability may be low">>)

_blocks_by_layer_FirstBucket(buckets, layer) ==
    IF buckets = <<>> THEN <<>>
    ELSE SelectSeq(Head(buckets).blocks, LAMBDA block : block.meta.layer = layer)

\* ReportBuilder._blocks_by_layer
RECURSIVE _blocks_by_layer(_, _)
_blocks_by_layer(buckets, layer) ==
    IF buckets = <<>> THEN <<>>
    ELSE SelectSeq(Head(buckets).blocks, LAMBDA block : block.meta.layer = layer)
            \o _blocks_by_layer(Tail(buckets), layer)

\* the loop of build_placeholder_report over ordering, from its n-th entry
RECURSIVE SectionsFrom(_, _)
SectionsFrom(dataset, n) ==
    IF n > Len(ordering) THEN <<>>
    ELSE LET layer == ordering[n][1]
             heading == ordering[n][2]
             layer_blocks == _blocks_by_layer(dataset.collected, layer)
         IN (IF layer_blocks = <<>> THEN <<>>
             ELSE << ReportSection(
                        heading,
                        Join(SemiSpace,
                             [i \in DOMAIN layer_blocks |-> <<layer_blocks[i].title>>]),
                        [i \in DOMAIN layer_blocks |-> layer_blocks[i].body],
                        IF layer = "opinion" THEN OpinionCaution ELSE None,
                        layer) >>)
            \o SectionsFrom(dataset, n + 1)

\* ReportBuilder.build_placeholder_report
build_placeholder_report(dataset) ==
    DailyStockReportOutput(dataset.date, SectionsFrom(dataset, 1), dataset)

(***************************************************************************)
(* pipeline.py: DailyReportPipeline.run with a tool runner that answers    *)
(* each call with a list of records or raises.                             *)
(***************************************************************************)
Scores(source_score, recency_score, structure_score, consistency_score) ==
    [source_score |-> source_score, recency_score |-> recency_score,
     structure_score |-> structure_score, consistency_score |-> consistency_score]

\* the records a tool call may return
Records ==
    { [title |-> "hi", body |-> "body-hi", tags |-> <<"mock">>, source_id |-> "mock_price"]
          @@ Scores(900, 900, 900, 900),
      [title |-> "up", body |-> "body-up"] @@ Scores(500, 500, 500, 498),
      [title |-> "down", body |-> "body-down"] @@ Scores(500, 500, 500, 497),
      [body |-> "body-bare"],
      [title |-> "nested", source_score |-> 100,
       meta |-> [source_id |-> "inner"] @@ Scores(900, 800, 800, 800)] }

RunDates == {<<2024, 1, 2>>}
RunCueLists == SeqsUpTo({<<"a">>}, MaxRunCues)

RunResponses ==
    { [k |-> "json", doc |-> NonObject],
      [k |-> "json",
       doc |-> RawPlan(None,
                       TasksList(<< RawTask(ToolStr("get_top_sectors"), ArgsMissing, None),
                                    RawTask(ToolStr("search_kr_stock_news"),
                                            ArgsMap([query |-> <<"b">>]), None),
                                    RawTask(ToolStr("search_kr_stock_news"),
                                            ArgsMap([query |-> <<"b">>]), None) >>),
                       None)] }

\* ExecutionConfig.minimum_quality: the default and the score of a record
\* that carries no scores
MinimumQualities == {500, 670}

RunCalls ==
    {[op |-> "run", client |-> FALSE, response |-> NoResponse, date |-> d, cues |-> c,
      minimum_quality |-> q, main_threshold |-> 700] :
        d \in RunDates, c \in RunCueLists, q \in MinimumQualities}
    \cup {[op |-> "run", client |-> TRUE, response |-> r, date |-> d, cues |-> <<>>,
           minimum_quality |-> q, main_threshold |-> 700] :
            r \in RunResponses, d \in RunDates, q \in MinimumQualities}

RunInit ==
    /\ call \in RunCalls
    /\ result = Pending
    /\ pc = "plan"
    /\ budget = MaxRecords
    /\ Idle

\* pipeline.py:66, plan = self.build_plan(...)
RunBuildPlan ==
    /\ pc = "plan"
    /\ LET built == build(call.client, call.response, call.date, call.cues)
       IN IF built.raised
          THEN /\ pc' = "failed"
               /\ result' = Raise
               /\ plan' = plan
          ELSE /\ pc' = "collect"
               /\ result' = result
               /\ plan' = built.val
    /\ UNCHANGED <<heap, call, idx, records, collected, data, calls, processed, budget>>

\* executor.py:58-61, the tool call of the next task returns its records
CallTool ==
    /\ pc = "collect"
    /\ records = <<>>
    /\ idx < Len(plan.tasks)
    /\ \E returned \in SeqsUpTo(Records, budget) :
          LET task == TaskAt(plan.tasks, idx + 1)
          IN /\ records' = returned
             /\ budget' = budget - Len(returned)
             /\ calls' = Append(calls, [tool |-> task.tool, args |-> task.args,
                                        raised |-> FALSE, returned |-> returned])
    /\ idx' = idx + 1
    /\ UNCHANGED <<heap, call, result, pc, plan, collected, data, processed>>

\* executor.py:59-60, the tool call of the next task raises; execute and run
\* (pipeline.py:67) raise with it
ToolFails ==
    /\ pc = "collect"
    /\ records = <<>>
    /\ idx < Len(plan.tasks)
    /\ idx' = idx + 1
    /\ LET task == TaskAt(plan.tasks, idx + 1)
       IN calls' = Append(calls, [tool |-> task.tool, args |-> task.args,
                                  raised |-> TRUE, returned |-> <<>>])
    /\ LET outcome == ToolFailure(DailyStockReportData(plan.date, collected))
       IN /\ data' = outcome
          /\ result' = IF outcome.raised THEN Raise
                       ELSE Ok(build_placeholder_report(outcome.val))
    /\ pc' = "failed"
    /\ UNCHANGED <<heap, call, plan, records, collected, processed, budget>>

\* executor.py:62-72, one iteration of "for record in records"
ProcessRecord ==
    /\ pc = "collect"
    /\ records # <<>>
    /\ LET record == Head(records)
           tool == calls[Len(calls)].tool
           meta == _meta_from_record(record, layer_for_tool(tool))
       IN /\ processed' = Append(processed, [tool |-> tool, record |-> record])
          /\ IF meta.raised
             THEN /\ pc' = "failed"
                  /\ data' = Raise
                  /\ result' = Raise
                  /\ UNCHANGED collected
             ELSE /\ collected' =
                        IF BelowMinimum(meta.val, call.minimum_quality) THEN collected
                        ELSE add_block(collected, tool, BlockOf(record, tool, meta.val))
                  /\ UNCHANGED <<pc, data, result>>
    /\ records' = Tail(records)
    /\ UNCHANGED <<heap, call, plan, idx, calls, budget>>

\* executor.py:73, return dataset
ReturnDataset ==
    /\ pc = "collect"
    /\ records = <<>>
    /\ idx = Len(plan.tasks)
    /\ data' = Ok(DailyStockReportData(plan.date, collected))
    /\ pc' = "report"
    /\ UNCHANGED <<heap, call, result, plan, idx, records, collected, calls, processed,
                   budget>>

\* pipeline.py:68, return self.build_report(data)
BuildReport ==
    /\ pc = "report"
    /\ result' = Ok(build_placeholder_report(data.val))
    /\ pc' = "done"
    /\ UNCHANGED <<heap, call, plan, idx, records, collected, data, calls, processed,
                   budget>>

RunNext ==
    \/ RunBuildPlan
    \/ CallTool
    \/ ToolFails
    \/ ProcessRecord
    \/ ReturnDataset
    \/ BuildReport

RunSpec == RunInit /\ [][RunNext]_vars

(***************************************************************************)
(* Claims about the planner.                                               *)
(***************************************************************************)
Returned == result # Pending /\ ~result.raised

\* the (tool, args) pairs of a task list, in order
ToolArgs(tasks) == [i \in DOMAIN tasks |-> <<tasks[i].tool, tasks[i].args>>]

\* a planner response that is unparseable or lacks the expected shape
Malformed(response) ==
    \/ response.k = "text"
    \/ response.doc.k # "object"
    \/ response.doc.tasks.k # "list"
    \/ \E i \in DOMAIN response.doc.tasks.items :
          LET item == response.doc.tasks.items[i]
          IN item.k # "object" \/ item.args.k = "null"

\* C1: build returns a plan for every planner response, and for a malformed
\* response the plan it returns with no planner configured.
C1_BuildNeverRaises ==
    (call.op = "build" /\ result # Pending /\ call.client) =>
        /\ ~result.raised
        /\ Malformed(call.response) =>
              result = build(FALSE, NoResponse, call.date, call.cues)

\* C2: in a plan returned by merge_with_base or build each tool of base_tasks
\* names exactly one task.
C2_MandatoryOnce ==
    (call.op \in {"build", "merge_with_base"} /\ Returned) =>
        \A i \in DOMAIN result.val.base_tasks :
            Cardinality({j \in DOMAIN result.val.tasks :
                            result.val.tasks[j].tool = result.val.base_tasks[i]}) = 1

C2_Witness ==
    /\ call.op = "merge_with_base" /\ Returned
    /\ call.raw_plan.tasks.k = "list"
    /\ Len(call.raw_plan.tasks.items) = 2
    /\ \A i \in 1..2 :
          /\ call.raw_plan.tasks.items[i].k = "object"
          /\ call.raw_plan.tasks.items[i].tool = ToolStr("get_index_snapshot")

\* the raw tasks whose tool is a whitelisted name, in order
WhitelistedItems(items) ==
    SelectSeq(items, LAMBDA item :
        /\ item.k = "object"
        /\ item.tool.k = "str"
        /\ item.tool.s \in {"get_index_snapshot", "get_macro_snapshot",
                            "get_dart_disclosures", "get_top_sectors",
                            "search_kr_stock_news", "get_forum_sentiment"})

\* C3: compile_tasks keeps exactly the raw tasks naming a whitelisted tool, and
\* no plan holds a task of another tool.
C3_WhitelistOnly ==
    /\ (call.op = "compile_tasks" /\ Returned /\ call.raw_tasks.k = "list") =>
          LET kept == WhitelistedItems(call.raw_tasks.items)
          IN /\ Len(result.val) = Len(kept)
             /\ \A i \in DOMAIN kept : result.val[i].tool = kept[i].tool.s
    /\ (call.op \in {"build", "merge_with_base"} /\ Returned) =>
          \A i \in DOMAIN result.val.tasks :
              result.val.tasks[i].tool \in
                  {"get_index_snapshot", "get_macro_snapshot", "get_dart_disclosures",
                   "get_top_sectors", "search_kr_stock_news", "get_forum_sentiment"}

C3_Witness ==
    /\ call.op = "compile_tasks" /\ Returned
    /\ call.raw_tasks.k = "list"
    /\ Len(call.raw_tasks.items) = 2
    /\ call.raw_tasks.items[1].tool = ToolStr("get_volatility_snapshot")
    /\ call.raw_tasks.items[2].tool = ToolStr("get_top_sectors")
    /\ Len(result.val) = 1

\* the raw plan build chooses contributes no tasks: the fallback, or a parsed
\* plan whose 'tasks' is missing, null, ill-typed or empty
ContributesNoTasks(response) ==
    \/ response.k = "text"
    \/ /\ response.doc.k = "object"
       /\ \/ response.doc.tasks.k # "list"
          \/ response.doc.tasks.items = <<>>

\* C4: with no cues and a raw plan that contributes no tasks build returns
\* enrich_plan(base_plan, []).
C4_NoCuesNoTasks ==
    (/\ call.op = "build" /\ result # Pending
     /\ call.cues = <<>>
     /\ ~call.client \/ ContributesNoTasks(call.response)) =>
        result = Ok(enrich_plan(build_base_plan(call.date), <<>>))

\* C5: with no planner, or a response that does not parse, build returns the
\* (tool, args) sequence and the enrichment_reason of enrich_plan.
C5_FallbackIsEnrich ==
    (/\ call.op = "build" /\ result # Pending
     /\ ~call.client \/ call.response.k = "text") =>
        LET enriched == enrich_plan(build_base_plan(call.date), call.cues)
        IN /\ ~result.raised
           /\ ToolArgs(result.val.tasks) = ToolArgs(enriched.tasks)
           /\ result.val.enrichment_reason = enriched.enrichment_reason

C5_Witness ==
    /\ call.op = "build" /\ Returned
    /\ call.client /\ call.response.k = "text"
    /\ Len(call.cues) = 2 /\ call.cues[1] # call.cues[2]
    /\ Len(result.val.tasks) = 7

\* C6: the first three tasks of a plan build returns are the baseline tasks.
C6_BaselineIntact ==
    (call.op = "build" /\ Returned) =>
        /\ Len(result.val.tasks) >= 3
        /\ SubSeq(result.val.tasks, 1, 3) = build_base_plan(call.date).tasks

C6_Witness ==
    /\ call.op = "build" /\ Returned
    /\ call.client /\ call.response.k = "json"
    /\ call.response.doc.tasks.k = "list"
    /\ \E i \in DOMAIN call.response.doc.tasks.items :
          call.response.doc.tasks.items[i] =
              RawTask(ToolStr("get_index_snapshot"),
                      ArgsMap([indices |-> <<"KOSPI">>]), None)
    /\ result.val.tasks[1].args = [indices |-> <<"KOSPI", "KOSDAQ">>]

\* C7: merge_with_base appends, in raw-list order, every compiled task whose
\* tool is not one of the three mandatory tools, repeated tools included.
C7_ExtrasAppended ==
    (call.op = "merge_with_base" /\ Returned) =>
        LET compiled == compile_tasks(GetTasks(call.raw_plan)).val
            extras == SelectSeq(compiled, LAMBDA task :
                          task.tool \notin {"get_index_snapshot", "get_macro_snapshot",
                                            "get_dart_disclosures"})
        IN /\ Len(result.val.tasks) = 3 + Len(extras)
           /\ SubSeq(result.val.tasks, 4, Len(result.val.tasks)) = extras

C7_Witness ==
    /\ call.op = "merge_with_base" /\ Returned
    /\ Len(result.val.tasks) = 5
    /\ result.val.tasks[4].tool = "search_kr_stock_news"
    /\ result.val.tasks[5].tool = "search_kr_stock_news"
    /\ result.val.tasks[4].args # result.val.tasks[5].args

(***************************************************************************)
(* Claims about the executor and the pipeline run.                         *)
(***************************************************************************)
DataReturned == data # Pending /\ ~data.raised

\* the bucket of a tool in a dataset, empty when the tool has none
Bucket(buckets, tool) ==
    IF \E i \in DOMAIN buckets : buckets[i].key = tool
    THEN buckets[CHOOSE i \in DOMAIN buckets : buckets[i].key = tool].blocks
    ELSE <<>>

\* the quality score execute gives a record returned for a tool
ScoreOf(entry) ==
    quality_score(_meta_from_record(entry.record, layer_for_tool(entry.tool)).val)

\* C8: the dataset execute returns holds, for each tool, the blocks of exactly
\* the returned records whose quality score is at least minimum_quality.
C8_RetainedIffAtLeastMinimum ==
    DataReturned =>
        /\ \A i \in DOMAIN data.val.collected :
              \E j \in DOMAIN plan.tasks : plan.tasks[j].tool = data.val.collected[i].key
        /\ \A j \in DOMAIN plan.tasks :
              LET tool == plan.tasks[j].tool
                  kept == SelectSeq(processed, LAMBDA entry :
                              entry.tool = tool /\ ScoreOf(entry) >= call.minimum_quality)
              IN Bucket(data.val.collected, tool) =
                    [i \in DOMAIN kept |->
                        BlockOf(kept[i].record, tool,
                                _meta_from_record(kept[i].record,
                                                  layer_for_tool(tool)).val)]

C8_Witness ==
    /\ DataReturned
    /\ call.minimum_quality = 500
    /\ Len(processed) = 2
    /\ processed[1].tool = processed[2].tool
    /\ RecordGet(processed[1].record, "title", "") = "up"
    /\ ScoreOf(processed[1]) = 500
    /\ RecordGet(processed[2].record, "title", "") = "down"
    /\ ScoreOf(processed[2]) = 499
    /\ Len(Bucket(data.val.collected, processed[1].tool)) = 1

\* the records the calls so far returned, each with its call's tool, in order
RECURSIVE ReturnedBy(_)
ReturnedBy(log) ==
    IF log = <<>> THEN <<>>
    ELSE ReturnedBy(SubSeq(log, 1, Len(log) - 1))
            \o [i \in DOMAIN log[Len(log)].returned |->
                    [tool |-> log[Len(log)].tool, record |-> log[Len(log)].returned[i]]]

\* C9: the i-th tool call is the i-th task's tool with its arguments, a returned
\* dataset has had one call per task, and only records of the latest call are
\* ever waiting to be processed.
C9_SequentialInPlanOrder ==
    /\ (plan # None) =>
          /\ Len(calls) <= Len(plan.tasks)
          /\ \A i \in DOMAIN calls :
                /\ calls[i].tool = plan.tasks[i].tool
                /\ calls[i].args = plan.tasks[i].args
    /\ DataReturned => Len(calls) = Len(plan.tasks)
    /\ (calls # <<>>) =>
          ReturnedBy(calls) =
              processed \o [i \in DOMAIN records |->
                              [tool |-> calls[Len(calls)].tool, record |-> records[i]]]

C9_Witness ==
    /\ pc = "done"
    /\ Len(calls) = 5
    /\ calls[4].returned # <<>>
    /\ calls[5].returned # <<>>
    /\ calls[4].tool # calls[5].tool

\* C10: a tool call that fails is the last call of the run, and execute and run
\* raise: neither a dataset nor a report is returned.
C10_ToolFailurePropagates ==
    \A k \in DOMAIN calls :
        calls[k].raised =>
            /\ k = Len(calls)
            /\ pc = "failed"
            /\ data = Raise
            /\ result = Raise

C10_Witness ==
    /\ Len(calls) = 3
    /\ calls[3].raised
    /\ Len(processed) = 2
    /\ collected # <<>>
    /\ result = Raise

(***************************************************************************)
(* models.py: the quality band, and the quality model called on its own.   *)
(***************************************************************************)
quality_band_Strict(meta, main_threshold, minimum_quality) ==
    LET score == quality_score(meta)
    IN IF score > main_threshold THEN "main"
       ELSE IF score >= minimum_quality THEN "support"
       ELSE "discard"

\* SourceMeta.quality_band(main_threshold=..., minimum_quality=...)
quality_band(meta, main_threshold, minimum_quality) ==
    LET score == quality_score(meta)
    IN IF score >= main_threshold THEN "main"
       ELSE IF score >= minimum_quality THEN "support"
       ELSE "discard"

\* Sub-scores the quality model is called with.  With these the weighted
\* sum never lies half way between two thousandths, where the outcome of
\* round() follows the binary representation of the float total.
SubScores == {0, 495, 500, 695, 700, 1000}

SubScoreFields ==
    {"source_score", "recency_score", "structure_score", "consistency_score"}

Thresholds == {500, 700}

QualityMetas(ids, layers) ==
    {SourceMeta(id, l, s, r, t, c) :
        id \in ids, l \in layers, s \in SubScores, r \in SubScores,
        t \in SubScores, c \in SubScores}

QualityCalls ==
    {[op |-> "quality_band", meta |-> m, main_threshold |-> mt, minimum_quality |-> mq] :
        m \in QualityMetas({"unknown"}, {"news"}), mt \in Thresholds, mq \in Thresholds}
    \cup {[op |-> "quality_score", meta |-> m] :
            m \in QualityMetas({"unknown", "krx"}, {"price", "opinion"})}
    \cup {c \in [op : {"raise"}, meta : QualityMetas({"unknown"}, {"news"}),
                 field : SubScoreFields, value : SubScores,
                 main_threshold : Thresholds, minimum_quality : Thresholds] :
            c.value > c.meta[c.field]}

QualityInit ==
    /\ call \in QualityCalls
    /\ result = Pending
    /\ pc = "quality"
    /\ budget = 0
    /\ Idle

QualityBand ==
    /\ result = Pending
    /\ call.op = "quality_band"
    /\ result' = Ok(quality_band(call.meta, call.main_threshold, call.minimum_quality))
    /\ UNCHANGED <<heap, call, pc, plan, idx, records, collected, data, calls,
                   processed, budget>>

QualityScore ==
    /\ result = Pending
    /\ call.op = "quality_score"
    /\ result' = Ok(quality_score(call.meta))
    /\ UNCHANGED <<heap, call, pc, plan, idx, records, collected, data, calls,
                   processed, budget>>

\* the score and the band of a meta under the call's thresholds
Graded(meta) ==
    [score |-> quality_score(meta),
     band |-> quality_band(meta, call.main_threshold, call.minimum_quality)]

\* one sub-score is raised, the other three are held
RaiseSubScore ==
    /\ result = Pending
    /\ call.op = "raise"
    /\ result' = Ok([before |-> Graded(call.meta),
                     after |-> Graded([call.meta EXCEPT ![call.field] = call.value])])
    /\ UNCHANGED <<heap, call, pc, plan, idx, records, collected, data, calls,
                   processed, budget>>

QualityNext == QualityBand \/ QualityScore \/ RaiseSubScore

QualitySpec == QualityInit /\ [][QualityNext]_vars

\* the weighted sum of a meta's four sub-scores, in units of 0.00001
WeightedSum(meta) ==
    35 * meta.source_score + 25 * meta.recency_score
    + 20 * meta.structure_score + 20 * meta.consistency_score

\* the score a call of quality_band grades, to the nearest thousandth
BandScore == (WeightedSum(call.meta) + 50) \div 100

\* C11: quality_band returns exactly one of main, support and discard, for every
\* score and every pair of thresholds: main iff the score is at least
\* main_threshold, support iff it is at least minimum_quality and below
\* main_threshold, discard otherwise.  With thresholds 0.7 and 0.5, 0.7 gives
\* main, 0.699 support, 0.5 support and 0.499 discard.
C11_BandByThresholds ==
    (call.op = "quality_band" /\ result # Pending) =>
        /\ ~result.raised
        /\ result.val \in {"main", "support", "discard"}
        /\ result.val = "main" <=> BandScore >= call.main_threshold
        /\ result.val = "support" <=>
              (call.minimum_quality <= BandScore /\ BandScore < call.main_threshold)
        /\ result.val = "discard" <=>
              (BandScore < call.main_threshold /\ BandScore < call.minimum_quality)
        /\ (call.main_threshold = 700 /\ call.minimum_quality = 500) =>
              /\ BandScore = 700 => result.val = "main"
              /\ BandScore = 699 => result.val = "support"
              /\ BandScore = 500 => result.val = "support"
              /\ BandScore = 499 => result.val = "discard"

C11_Witness ==
    /\ call.op = "quality_band"
    /\ call.main_threshold = 700
    /\ call.minimum_quality = 500
    /\ BandScore = 699
    /\ result = Ok("support")

BandRank(band) ==
    CASE band = "main" -> 2
      [] band = "support" -> 1
      [] band = "discard" -> 0

\* C12: for fixed thresholds, raising one sub-score while the other three are
\* held never lowers quality_score and never moves quality_band to a lower band
\* (main > support > discard), the rounding to 3 decimals included.
C12_RaisingNeverLowers ==
    (call.op = "raise" /\ result # Pending) =>
        /\ result.val.after.score >= result.val.before.score
        /\ BandRank(result.val.after.band) >= BandRank(result.val.before.band)

C12_Witness ==
    /\ call.op = "raise"
    /\ call.main_threshold = 700
    /\ call.minimum_quality = 500
    /\ result # Pending
    /\ result.val.before = [score |-> 699, band |-> "support"]
    /\ result.val.after = [score |-> 700, band |-> "main"]

\* C13: quality_score is 0.35*source + 0.25*recency + 0.2*structure
\* + 0.2*consistency rounded to 3 decimals, for sub-scores in [0,1]: it lies in
\* [0,1], is 1.0 when the four sub-scores are 1.0 and 0.0 when they are 0.0, and
\* is the same whatever the layer and the source_id.
C13_WeightedSumRounded ==
    (call.op = "quality_score" /\ result # Pending) =>
        LET m == call.meta
        IN /\ ~result.raised
           /\ result.val \in 0..1000
           /\ 100 * result.val - WeightedSum(m) \in -50..50
           /\ (\A f \in SubScoreFields : m[f] = 1000) => result.val = 1000
           /\ (\A f \in SubScoreFields : m[f] = 0) => result.val = 0
           /\ \A id \in {"unknown", "krx"}, l \in {"price", "opinion", "risk"} :
                 result.val =
                    quality_score([m EXCEPT !.source_id = id, !.layer = l])

C13_Witness ==
    /\ call.op = "quality_score"
    /\ call.meta = SourceMeta("krx", "opinion", 0, 495, 0, 0)
    /\ result = Ok(124)

(***************************************************************************)
(* Claims about the text report of a run.                                  *)
(***************************************************************************)
ReportReturned == pc = "done" /\ ~result.raised

DisplayOrder == <<"price", "disclosure", "macro", "news", "opinion">>

DataLayers == {"price", "disclosure", "macro", "news", "opinion", "risk"}

\* the place of a layer in the display order
Place(layer) == CHOOSE n \in DOMAIN DisplayOrder : DisplayOrder[n] = layer

\* the layers of the blocks of a dataset
LayersOf(dataset) ==
    UNION {{dataset.collected[i].blocks[j].meta.layer :
                j \in DOMAIN dataset.collected[i].blocks} :
            i \in DOMAIN dataset.collected}

\* C14: the section layers of a report follow the order price, disclosure,
\* macro, news, opinion with no layer repeated, and a layer has a section iff
\* some bucket of the dataset holds a block of that layer; when every opinion
\* record was discarded there is no opinion section.
C14_SectionsInDisplayOrder ==
    ReportReturned =>
        LET sections == result.val.sections
        IN /\ \A i \in DOMAIN sections :
                \E n \in DOMAIN DisplayOrder : sections[i].layer = DisplayOrder[n]
           /\ \A i, j \in DOMAIN sections :
                i < j => Place(sections[i].layer) < Place(sections[j].layer)
           /\ \A layer \in DataLayers :
                (\E i \in DOMAIN sections : sections[i].layer = layer)
                    <=> layer \in LayersOf(data.val)
           /\ (\A k \in DOMAIN processed :
                    layer_for_tool(processed[k].tool) = "opinion"
                        => ScoreOf(processed[k]) < call.minimum_quality)
                => \A i \in DOMAIN sections : sections[i].layer # "opinion"

C14_Witness ==
    /\ ReportReturned
    /\ Len(data.val.collected) = 2
    /\ data.val.collected[1].key = "get_macro_snapshot"
    /\ data.val.collected[2].key = "get_dart_disclosures"
    /\ Len(result.val.sections) = 2
    /\ result.val.sections[1].layer = "disclosure"
    /\ result.val.sections[2].layer = "macro"

\* C15: a section of a report carries the fixed caution string iff its layer is
\* opinion; sections of price, disclosure, macro and news carry none.
C15_CautionIffOpinion ==
    ReportReturned =>
        \A i \in DOMAIN result.val.sections :
            LET section == result.val.sections[i]
            IN /\ section.caution = Str(<<"community data, reliability may be low">>)
                    <=> section.layer = "opinion"
               /\ section.layer \in {"price", "disclosure", "macro", "news"}
                    => section.caution = None

C15_Witness ==
    /\ ReportReturned
    /\ Len(result.val.sections) = 2
    /\ result.val.sections[1].layer = "news"
    /\ result.val.sections[1].caution = None
    /\ result.val.sections[2].layer = "opinion"
    /\ result.val.sections[2].caution # None

(***************************************************************************)
(* report.py: the prompt payload, and the two builders called any number   *)
(* of times on one dataset.                                                *)
(***************************************************************************)
LayeredSummary(layer, content, risk_tag, references) ==
    [layer |-> layer, content |-> content, risk |-> risk_tag,
     references |-> references]

ReportPrompt(date, summaries, guidance_text) ==
    [date |-> date, summaries |-> summaries, guidance |-> guidance_text]

ColonSpace == <<":", " ">>

risk_Strict(block) ==
    IF quality_score(block.meta) > 700 THEN "confirmed" ELSE "low_confidence"

\* report.py:27
risk(block) ==
    IF quality_score(block.meta) >= 700 THEN "confirmed" ELSE "low_confidence"

\* report.py:28-35, the summary of one block
SummaryOf(block) ==
    LayeredSummary(block.meta.layer,
                   Str(<<block.title>> \o ColonSpace \o <<block.body>>),
                   risk(block), block.tags)

\* report.py:25-26, the two loops of build_prompt
RECURSIVE summaries(_)
summaries(buckets) ==
    IF buckets = <<>> THEN <<>>
    ELSE [i \in DOMAIN Head(buckets).blocks |-> SummaryOf(Head(buckets).blocks[i])]
            \o summaries(Tail(buckets))

guidance ==
    Str(<<"report quantitative data as it is and mark low-trust layers (opinion) as speculation; ",
          "summarise in the order index/sector/disclosure/policy/sentiment">>)

\* ReportBuilder.build_prompt
build_prompt(dataset) ==
    ReportPrompt(Str(isoformat(dataset.date)), summaries(dataset.collected), guidance)

\* a builder that empties the buckets it walks
AfterBuilder_Drained(dataset) ==
    [dataset EXCEPT !.collected =
        [i \in DOMAIN dataset.collected |-> [dataset.collected[i] EXCEPT !.blocks = <<>>]]]

\* the dataset after a builder ran on it: both builders only read
\* data.collected, and _blocks_by_layer extends a list of its own
AfterBuilder(dataset) == dataset

\* records behind the datasets handed to the builders
ReportRecords ==
    { [title |-> "hi", body |-> "body-hi", tags |-> <<"mock">>, source_id |-> "mock_price"]
          @@ Scores(900, 900, 900, 900),
      [title |-> "par", body |-> "body-par"] @@ Scores(700, 700, 700, 700),
      [title |-> "near", body |-> "body-near"] @@ Scores(700, 700, 700, 695) }

ReportTools == {"get_index_snapshot", "get_top_sectors", "get_forum_sentiment"}

ReportEntries == [tool : ReportTools, record : ReportRecords]

\* the buckets execute fills from the returned records, under the default
\* minimum_quality
RECURSIVE Collected(_)
Collected(entries) ==
    IF entries = <<>> THEN <<>>
    ELSE LET n == Len(entries)
             prior == Collected(SubSeq(entries, 1, n - 1))
             tool == entries[n].tool
             meta == _meta_from_record(entries[n].record, layer_for_tool(tool)).val
         IN IF BelowMinimum(meta, 500) THEN prior
            ELSE add_block(prior, tool, BlockOf(entries[n].record, tool, meta))

ReportDatasets ==
    {DailyStockReportData(d, Collected(entries)) :
        d \in RunDates, entries \in SeqsUpTo(ReportEntries, MaxBlocks)}

ReportInit ==
    /\ \E dataset \in ReportDatasets :
          /\ data = Ok(dataset)
          /\ collected = dataset.collected
    /\ call = [op |-> "builders"]
    /\ heap = ModuleHeap
    /\ result = Pending
    /\ pc = "builders"
    /\ budget = MaxBuilds
    /\ plan = None
    /\ idx = 0
    /\ records = <<>>
    /\ calls = <<>>
    /\ processed = <<>>

\* pipeline.py:42-44, build_report(data)
BuildPlaceholderReport ==
    /\ pc = "builders"
    /\ budget > 0
    /\ result' = Ok(build_placeholder_report(data.val))
    /\ calls' = Append(calls, [builder |-> "build_placeholder_report",
                               returned |-> build_placeholder_report(data.val).sections])
    /\ data' = Ok(AfterBuilder(data.val))
    /\ budget' = budget - 1
    /\ UNCHANGED <<heap, call, pc, plan, idx, records, collected, processed>>

\* pipeline.py:46-48, build_llm_prompt(data)
BuildPrompt ==
    /\ pc = "builders"
    /\ budget > 0
    /\ result' = Ok(build_prompt(data.val))
    /\ calls' = Append(calls, [builder |-> "build_prompt",
                               returned |-> build_prompt(data.val).summaries])
    /\ data' = Ok(AfterBuilder(data.val))
    /\ budget' = budget - 1
    /\ UNCHANGED <<heap, call, pc, plan, idx, records, collected, processed>>

ReportNext == BuildPlaceholderReport \/ BuildPrompt

ReportSpec == ReportInit /\ [][ReportNext]_vars

(***************************************************************************)
(* Claims about the builders.                                              *)
(***************************************************************************)
\* the number of blocks in the buckets before the i-th
RECURSIVE BlocksBefore(_, _)
BlocksBefore(buckets, i) ==
    IF i <= 1 THEN 0
    ELSE BlocksBefore(buckets, i - 1) + Len(buckets[i - 1].blocks)

\* C16: build_prompt emits one LayeredSummary per block of the dataset, bucket
\* after bucket and in the order within each bucket, none skipped or
\* duplicated, with the block's layer, and with risk confirmed iff the block's
\* quality score is at least 0.7 and low_confidence otherwise.
C16_OneSummaryPerBlock ==
    \A k \in DOMAIN calls :
        (pc = "builders" /\ calls[k].builder = "build_prompt") =>
            LET out == calls[k].returned
            IN /\ Len(out) = BlocksBefore(collected, Len(collected) + 1)
               /\ \A i \in DOMAIN collected :
                    \A j \in DOMAIN collected[i].blocks :
                        LET block == collected[i].blocks[j]
                            s == out[BlocksBefore(collected, i) + j]
                            score == (WeightedSum(block.meta) + 50) \div 100
                        IN /\ s.layer = block.meta.layer
                           /\ s.content = Str(<<block.title, ":", " ", block.body>>)
                           /\ s.references = block.tags
                           /\ s.risk = "confirmed" <=> score >= 700
                           /\ s.risk = "low_confidence" <=> score < 700

C16_Witness ==
    /\ pc = "builders"
    /\ Len(calls) = 1
    /\ calls[1].builder = "build_prompt"
    /\ Len(collected) = 2
    /\ collected[1].key = "get_forum_sentiment"
    /\ Len(collected[1].blocks) = 2
    /\ collected[1].blocks[2].title = "near"
    /\ collected[2].blocks[1].title = "par"
    /\ calls[1].returned[2].risk = "low_confidence"
    /\ calls[1].returned[3].risk = "confirmed"
    /\ calls[1].returned[3].layer = "price"

C18_BaselinePlan ==
    (call.op = "build_base_plan" /\ result # Pending) =>
        /\ ~result.raised
        /\ result.val.date = call.date
        /\ ToolArgs(result.val.tasks) =
              << <<"get_index_snapshot", [indices |-> <<"KOSPI", "KOSDAQ">>]>>,
                 <<"get_macro_snapshot", EmptyDict>>,
                 <<"get_dart_disclosures", [importance |-> "high"]>> >>
        /\ result.val.base_tasks =
              <<"get_index_snapshot", "get_macro_snapshot", "get_dart_disclosures">>
        /\ result.val.enrichment_reason = None
        /\ \A d \in Dates :
              [build_base_plan(d) EXCEPT !.date = call.date] = result.val

C18_Witness ==
    /\ call.op = "build_base_plan"
    /\ call.date = <<2025, 12, 31>>
    /\ Returned
    /\ Len(result.val.tasks) = 3
    /\ result.val.date = <<2025, 12, 31>>

\* the cues joined with ", "
RECURSIVE CommaJoined(_)
CommaJoined(cues) ==
    IF Len(cues) = 1 THEN cues[1]
    ELSE CommaJoined(SubSeq(cues, 1, Len(cues) - 1)) \o <<",", " ">> \o cues[Len(cues)]

\* C19: enrich_plan returns the base plan's tasks followed, for each cue in
\* input order, by a news-search task (query = cue, limit = 5) and then a
\* forum-sentiment task (topics = [cue]): two tasks per cue, repeated cues
\* included; enrichment_reason is the cues joined with ", ", or absent when
\* there is no cue.
C19_TwoTasksPerCue ==
    (call.op = "enrich_plan" /\ result # Pending) =>
        LET base == call.base_plan.tasks
            n == Len(base)
            tasks == result.val.tasks
        IN /\ ~result.raised
           /\ Len(tasks) = n + 2 * Len(call.cues)
           /\ SubSeq(tasks, 1, n) = base
           /\ \A i \in DOMAIN call.cues :
                /\ tasks[n + 2 * i - 1].tool = "search_kr_stock_news"
                /\ tasks[n + 2 * i - 1].args = [query |-> call.cues[i], limit |-> 5]
                /\ tasks[n + 2 * i].tool = "get_forum_sentiment"
                /\ tasks[n + 2 * i].args = [topics |-> <<call.cues[i]>>]
           /\ result.val.enrichment_reason =
                IF call.cues = <<>> THEN None ELSE Str(CommaJoined(call.cues))

C19_Witness ==
    /\ call.op = "enrich_plan"
    /\ call.cues = << <<"a">>, <<"a">> >>
    /\ Len(call.base_plan.tasks) = 5
    /\ Returned
    /\ Len(result.val.tasks) = 9
    /\ result.val.enrichment_reason = Str(<<"a", ",", " ", "a">>)

\* C20: layer_for_tool is total: index snapshot and top-sectors give price,
\* disclosures disclosure, macro snapshot macro, news search news, forum
\* sentiment opinion, every other tool name news, without raising; it never
\* gives risk.
C20_LayerTotal ==
    (call.op = "layer_for_tool" /\ result # Pending) =>
        /\ ~result.raised
        /\ result.val \in {"price", "disclosure", "macro", "news", "opinion"}
        /\ result.val # "risk"
        /\ call.tool \in {"get_index_snapshot", "get_top_sectors"} => result.val = "price"
        /\ call.tool = "get_dart_disclosures" => result.val = "disclosure"
        /\ call.tool = "get_macro_snapshot" => result.val = "macro"
        /\ call.tool = "search_kr_stock_news" => result.val = "news"
        /\ call.tool = "get_forum_sentiment" => result.val = "opinion"
        /\ call.tool \notin {"get_index_snapshot", "get_top_sectors",
                             "get_dart_disclosures", "get_macro_snapshot",
                             "search_kr_stock_news", "get_forum_sentiment"}
              => result.val = "news"

C20_Witness ==
    /\ call.op = "layer_for_tool"
    /\ call.tool = "get_volatility_snapshot"
    /\ result = Ok("news")

(***************************************************************************)
(* Claims about compiled arguments and shared objects.                     *)
(***************************************************************************)
\* the default arguments as planner.py writes them
DefaultTemplate ==
    [get_index_snapshot |-> [indices |-> <<"KOSPI", "KOSDAQ">>],
     get_dart_disclosures |-> [importance |-> "high"],
     search_kr_stock_news |-> [limit |-> 5],
     get_top_sectors |-> [limit |-> 5],
     get_forum_sentiment |-> [topics |-> <<>>]]

\* C21: the args of a compiled task are the tool's default template overlaid
\* with the caller's args: a default key the caller left out keeps its default,
\* a key the caller gave has the caller's value, also where it collides with a
\* default; the shared template is unchanged after compilation.
C21_DefaultsOverlaid ==
    (call.op = "compile_tasks" /\ Returned /\ call.raw_tasks.k = "list") =>
        LET kept == WhitelistedItems(call.raw_tasks.items)
        IN /\ Len(result.val) = Len(kept)
           /\ \A i \in DOMAIN kept :
                LET tool == kept[i].tool.s
                    defaults == IF tool \in DOMAIN DefaultTemplate
                                THEN DefaultTemplate[tool] ELSE EmptyDict
                    given == IF kept[i].args.k = "map" THEN kept[i].args.m
                             ELSE EmptyDict
                    args == result.val[i].args
                IN /\ DOMAIN args = DOMAIN defaults \cup DOMAIN given
                   /\ \A key \in DOMAIN given : args[key] = given[key]
                   /\ \A key \in DOMAIN defaults \ DOMAIN given :
                        args[key] = defaults[key]
           /\ heap.DEFAULT_TOOL_ARGS = DefaultTemplate

C21_Witness ==
    /\ call.op = "compile_tasks" /\ Returned
    /\ call.raw_tasks.k = "list"
    /\ Len(result.val) = 2
    /\ result.val[1].args = [query |-> <<"b">>, limit |-> 9]
    /\ result.val[2].args = [query |-> <<"a">>, limit |-> 5]
    /\ heap.DEFAULT_TOOL_ARGS = DefaultTemplate

(***************************************************************************)
(* Claims about the steps of execute.                                      *)
(***************************************************************************)
\* the blocks execute keeps of the processed records of a tool, in the order
\* they were processed
KeptBlocks(entries, tool) ==
    LET kept == SelectSeq(entries, LAMBDA entry :
                    entry.tool = tool /\ ScoreOf(entry) >= call.minimum_quality)
    IN [i \in DOMAIN kept |->
            BlockOf(kept[i].record, tool,
                    _meta_from_record(kept[i].record, layer_for_tool(tool)).val)]

\* one step of a run, as the dataset under construction sees it
GrowsByAppend ==
    /\ Len(collected') >= Len(collected)
    /\ \A i \in DOMAIN collected :
          /\ collected'[i].key = collected[i].key
          /\ Len(collected'[i].blocks) >= Len(collected[i].blocks)
          /\ SubSeq(collected'[i].blocks, 1, Len(collected[i].blocks))
                = collected[i].blocks
    /\ BlocksBefore(collected', Len(collected') + 1)
          <= BlocksBefore(collected, Len(collected) + 1) + 1
    /\ (collected' # collected) =>
          /\ records # <<>>
          /\ plan.tasks[idx].tool = calls[Len(calls)].tool
          /\ LET tool == plan.tasks[idx].tool
                 bucket == Bucket(collected', tool)
             IN /\ Len(bucket) = Len(Bucket(collected, tool)) + 1
                /\ bucket[Len(bucket)] =
                      BlockOf(Head(records), tool,
                              _meta_from_record(Head(records), layer_for_tool(tool)).val)
    /\ \A i \in DOMAIN collected' :
          collected'[i].blocks = KeptBlocks(processed', collected'[i].key)

\* C22: while execute runs the dataset only grows by appends: at every step
\* each bucket extends what it was (nothing removed, replaced or reordered), a
\* retained block goes to the bucket named after the tool of the task that
\* produced it, and a bucket holds its blocks in the order of the calls and,
\* within a call, of the returned records, also when tasks share a tool.
C22_GrowsByAppends == [][GrowsByAppend]_vars

C22_Witness ==
    /\ pc = "collect"
    /\ Len(calls) = 6
    /\ calls[5].tool = "search_kr_stock_news"
    /\ calls[6].tool = "search_kr_stock_news"
    /\ Len(calls[5].returned) = 1
    /\ Len(calls[6].returned) = 1
    /\ records = <<>>
    /\ Len(collected) = 1
    /\ collected[1].key = "search_kr_stock_news"
    /\ Len(collected[1].blocks) = 2
    /\ collected[1].blocks[1].title = "nested"
    /\ collected[1].blocks[2].title = "hi"

(***************************************************************************)
(* executor.py: the metadata of one returned record, for records carrying  *)
(* any part of it at the top level or under "meta".                        *)
(***************************************************************************)
OwnValues ==
    [source_id |-> "src", source_score |-> 900, recency_score |-> 500,
     structure_score |-> 400, consistency_score |-> 200]

MetaRecords ==
    {[title |-> "t"] @@ [key \in carried |-> OwnValues[key]] : carried \in SUBSET MetaKeys}
    \cup { [title |-> "partial", meta |-> [source_id |-> "inner", source_score |-> 900]],
           [title |-> "full", meta |-> [source_id |-> "inner"] @@ Scores(900, 800, 800, 800)],
           [title |-> "nested", source_score |-> 100,
            meta |-> [source_id |-> "inner"] @@ Scores(900, 800, 800, 800)] }

\* a record returned for a tool, under an ExecutionConfig
MetaCalls ==
    {[op |-> "_meta_from_record", tool |-> t, record |-> r, minimum_quality |-> mq,
      main_threshold |-> mt] :
        t \in ALLOWED_TOOLS, r \in MetaRecords, mq \in Thresholds, mt \in Thresholds}

MetaInit ==
    /\ call \in MetaCalls
    /\ result = Pending
    /\ pc = "meta"
    /\ budget = 0
    /\ Idle

\* executor.py:61-65: the layer of the task's tool, the meta of the record, its
\* score, and whether execute drops the record
MetaFromRecord ==
    /\ result = Pending
    /\ LET meta == _meta_from_record(call.record, layer_for_tool(call.tool))
       IN result' = IF meta.raised THEN Raise
                    ELSE Ok([meta |-> meta.val, score |-> quality_score(meta.val),
                             dropped |-> BelowMinimum(meta.val, call.minimum_quality)])
    /\ UNCHANGED <<heap, call, pc, plan, idx, records, collected, data, calls,
                   processed, budget>>

MetaNext == MetaFromRecord

MetaSpec == MetaInit /\ [][MetaNext]_vars

\* what a record carries of a metadata field, at its top level or under "meta"
Carries(record, field) ==
    \/ field \in DOMAIN record
    \/ "meta" \in DOMAIN record /\ field \in DOMAIN record.meta

Own(record, field) ==
    IF field \in DOMAIN record THEN record[field] ELSE record.meta[field]

DocumentedDefault(field, layer) ==
    CASE field = "source_id" -> "unknown"
      [] field = "source_score" -> IF layer = "opinion" THEN 300 ELSE 600
      [] field = "recency_score" -> 800
      [] field = "structure_score" -> 700
      [] field = "consistency_score" -> 600

\* C23: for every record a tool call returns, the executor builds the SourceMeta
\* with the layer of the task's tool and, field by field, the record's own
\* value where the record carries one and the documented default otherwise
\* (source_id unknown; source_score 0.3 for opinion, else 0.6; recency 0.8;
\* structure 0.7; consistency 0.6); a record carrying some of the fields is
\* scored with the mix of its values and the defaults.
C23_DefaultsPerField ==
    (call.op = "_meta_from_record" /\ result # Pending) =>
        /\ ~result.raised
        /\ result.val.meta.layer = layer_for_tool(call.tool)
        /\ \A field \in {"source_id", "source_score", "recency_score",
                         "structure_score", "consistency_score"} :
              result.val.meta[field] =
                  IF Carries(call.record, field) THEN Own(call.record, field)
                  ELSE DocumentedDefault(field, layer_for_tool(call.tool))
        /\ result.val.score = (WeightedSum(result.val.meta) + 50) \div 100

(***************************************************************************)
(* Plans as objects: a DailyStockReportPlan holds its tasks and base_tasks *)
(* lists by reference, here by their name in heap.  A plan is built from   *)
(* an input plan, then its caller changes the lists of the returned plan.  *)
(***************************************************************************)
\* the plan a plan object stands for
Deref(h, object) ==
    [object EXCEPT !.tasks = h[object.tasks], !.base_tasks = h[object.base_tasks]]

\* plan.py:41 and 61: tasks = list(base_plan.tasks) is a new list,
\* base_tasks=base_plan.base_tasks is the input plan's list
enrich_plan_lists(base) ==
    [tasks |-> "returned.tasks", base_tasks |-> base.base_tasks]

\* planner.py:83 and 93: merged = list(base_plan.tasks) and
\* list(base_plan.base_tasks) are new lists
merge_with_base_lists(base) ==
    [tasks |-> "returned.tasks", base_tasks |-> "returned.base_tasks"]

\* the heap once a plan with the given contents is stored in the given lists;
\* a list that exists already is the one referred to
Stored(h, lists, contents) ==
    [name \in DOMAIN h \cup {lists.tasks, lists.base_tasks} |->
        IF name \in DOMAIN h THEN h[name]
        ELSE IF name = lists.tasks THEN contents.tasks
        ELSE contents.base_tasks]

PlanObject(contents, lists) ==
    [contents EXCEPT !.tasks = lists.tasks, !.base_tasks = lists.base_tasks]

InputLists == [tasks |-> "input.tasks", base_tasks |-> "input.base_tasks"]

\* raw plans handed to merge_with_base next to an input plan
ObjectRawPlans ==
    {RawPlan(None, TasksMissing, None)}
    \cup {RawPlan(None, TasksList(<<item>>), Str(<<"x">>)) : item \in RawItems}

ObjectCalls ==
    {[op |-> "enrich_plan", base_plan |-> b, cues |-> c] :
        b \in BasePlans, c \in CueLists}
    \cup {[op |-> "merge_with_base", base_plan |-> b, raw_plan |-> rp] :
            b \in BasePlans, rp \in ObjectRawPlans}

ObjectInit ==
    /\ call \in ObjectCalls
    /\ plan = PlanObject(call.base_plan, InputLists)
    /\ heap = Stored(ModuleHeap, InputLists, call.base_plan)
    /\ result = Pending
    /\ pc = "construct"
    /\ budget = MaxEdits
    /\ idx = 0
    /\ records = <<>>
    /\ collected = <<>>
    /\ data = Pending
    /\ calls = <<>>
    /\ processed = <<>>

\* enrich_plan(base_plan, cues) on the input plan object
EnrichPlanObject ==
    /\ pc = "construct"
    /\ call.op = "enrich_plan"
    /\ LET contents == enrich_plan(Deref(heap, plan), call.cues)
           lists == enrich_plan_lists(plan)
       IN /\ heap' = Stored(heap, lists, contents)
          /\ result' = Ok(PlanObject(contents, lists))
    /\ pc' = "returned"
    /\ UNCHANGED <<call, plan, idx, records, collected, data, calls, processed, budget>>

\* PlanCompiler(target_date=base_plan.date).merge_with_base(base_plan, raw_plan)
\* on the input plan object
MergeWithBaseObject ==
    /\ pc = "construct"
    /\ call.op = "merge_with_base"
    /\ LET merged == merge_with_base(plan.date, Deref(heap, plan), call.raw_plan)
           lists == merge_with_base_lists(plan)
       IN IF merged.raised
          THEN /\ result' = Raise
               /\ UNCHANGED heap
          ELSE /\ heap' = Stored(heap, lists, merged.val)
               /\ result' = Ok(PlanObject(merged.val, lists))
    /\ pc' = "returned"
    /\ UNCHANGED <<call, plan, idx, records, collected, data, calls, processed, budget>>

\* what a caller appends to a list of a plan
ExtraItem(field) ==
    IF field = "tasks" THEN TaskPlan("get_top_sectors", [limit |-> 5], None)
    ELSE "get_top_sectors"

\* the caller changes a list of the returned plan: an append, or clear()
EditReturned ==
    /\ pc = "returned"
    /\ ~result.raised
    /\ budget > 0
    /\ \E field \in {"tasks", "base_tasks"}, edit \in {"append", "clear"} :
          heap' = [heap EXCEPT ![result.val[field]] =
                      IF edit = "append" THEN Append(@, ExtraItem(field)) ELSE <<>>]
    /\ budget' = budget - 1
    /\ UNCHANGED <<call, result, pc, plan, idx, records, collected, data, calls,
                   processed>>

ObjectNext == EnrichPlanObject \/ MergeWithBaseObject \/ EditReturned

ObjectSpec == ObjectInit /\ [][ObjectNext]_vars

\* C24: plan construction never edits an existing plan in place: once
\* enrich_plan or merge_with_base has returned, the input plan's tasks,
\* base_tasks, date and enrichment_reason are what they were, and stay so when
\* the returned plan's tasks or base_tasks list is changed later.
C24_InputPlanUntouched ==
    pc = "returned" => Deref(heap, plan) = call.base_plan

\* the band of the record's meta under the thresholds of the call's config
BandOfRecord ==
    quality_band(result.val.meta, call.main_threshold, call.minimum_quality)

FilterMatchesBand ==
    /\ result.val.dropped <=> BandOfRecord = "discard"
    /\ ~result.val.dropped => BandOfRecord \in {"main", "support"}
    /\ result.val.dropped => BandOfRecord \notin {"main", "support"}

\* C25, as claimed: for every record and every pair (minimum_quality,
\* main_threshold) execute drops the record iff its quality_band under that pair
\* is discard: no retained block is in band discard and no dropped record is in
\* band main or support.
C25_FilterAgreesWithBand ==
    (call.op = "_meta_from_record" /\ result # Pending /\ ~result.raised) =>
        FilterMatchesBand

\* C25, amended: the same for every pair with minimum_quality <= main_threshold.
C25_FilterAgreesWhenOrdered ==
    (/\ call.op = "_meta_from_record" /\ result # Pending /\ ~result.raised
     /\ call.minimum_quality <= call.main_threshold) =>
        FilterMatchesBand

C25_Witness ==
    /\ call.op = "_meta_from_record"
    /\ call.tool = "get_forum_sentiment"
    /\ call.minimum_quality = 500
    /\ call.main_threshold = 700
    /\ "meta" \notin DOMAIN call.record
    /\ "source_score" \notin DOMAIN call.record
    /\ result # Pending /\ ~result.raised
    /\ result.val.score = 350
    /\ result.val.dropped
    /\ BandOfRecord = "discard"

(***************************************************************************)
(* Claims relating the dataset to the text report.                         *)
(***************************************************************************)
\* the blocks of a dataset, bucket after bucket
RECURSIVE AllBlocks(_)
AllBlocks(buckets) ==
    IF buckets = <<>> THEN <<>>
    ELSE AllBlocks(SubSeq(buckets, 1, Len(buckets) - 1))
            \o buckets[Len(buckets)].blocks

RECURSIVE DetailCount(_)
DetailCount(sections) ==
    IF sections = <<>> THEN 0
    ELSE Len(Head(sections).details) + DetailCount(Tail(sections))

\* C26: no retained block is lost between collection and the text report: for
\* a dataset execute returns, each block shows in the details of exactly one
\* section, that of its layer, so the detail entries of all sections number
\* the blocks of the dataset, and within a section the blocks keep their
\* bucket order.
C26_NoBlockLost ==
    \A k \in DOMAIN calls :
        (pc = "builders" /\ calls[k].builder = "build_placeholder_report") =>
            LET sections == calls[k].returned
                blocks == AllBlocks(collected)
            IN /\ DetailCount(sections) = Len(blocks)
               /\ \A b \in DOMAIN blocks :
                    Cardinality({n \in DOMAIN sections :
                                    sections[n].layer = blocks[b].meta.layer}) = 1
               /\ \A n \in DOMAIN sections :
                    LET mine == SelectSeq(blocks, LAMBDA block :
                                    block.meta.layer = sections[n].layer)
                    IN sections[n].details = [i \in DOMAIN mine |-> mine[i].body]

C26_Witness ==
    /\ pc = "builders"
    /\ Len(calls) = 1
    /\ calls[1].builder = "build_placeholder_report"
    /\ Len(collected) = 2
    /\ collected[1].key = "get_top_sectors"
    /\ Len(collected[1].blocks) = 2
    /\ collected[2].key = "get_index_snapshot"
    /\ Len(calls[1].returned) = 1
    /\ calls[1].returned[1].details = <<"body-near", "body-hi", "body-par">>

====
